---- MODULE Spec2Model ----
(***************************************************************************)
(* Model of the stage-partitioning and pipeline tensor-exchange core of    *)
(* tensorlink: Worker (src/src/ml/worker.py) and its Remote Stage Proxy    *)
(* DistributedModule.  Workers 1 and 2 are the two workers the test script *)
(* starts, on its ports, 1 having connected to 2; worker 2 has connected   *)
(* to a further peer, which is not a Worker of this model.                 *)
(***************************************************************************)
EXTENDS Integers, Sequences, FiniteSets, TLC

VARIABLES
    training,            \* Worker.training, per node
    optimizer,           \* Worker.optimizer is set (TRUE) or None (FALSE)
    available_memory,    \* Worker.available_memory
    forward_batches,     \* Worker.forward_batches, a FIFO queue of items
    backward_batches,    \* Worker.backward_batches
    model,               \* Worker.model
    chan,                \* bytes in flight on each peer link
    nextId,              \* next fresh payload identity
    runPc,               \* position of the thread running Worker.run
    tick,                \* locals of the tick that is inside a proxy call
    call,                \* the user thread's call of DistributedModule.forward
    plan,                \* what the last distribute_model of the node did
    link,                \* each Connection a node holds: its thread's state
    file,                \* per link, the streamed_data_<host>_<port> file
    terminate,           \* Worker.terminate_flag is set
    codec,               \* bytes under test by the wire codec
    hist                 \* per node, what happened so far: the items put on
                         \* each queue (enqF, enqB), the items the run loop
                         \* took from each (deqF, deqB), the outputs its
                         \* forward ticks computed, whether a backward
                         \* tick ran while the forward queue held an item,
                         \* the call whose exception left stream_data
                         \* ("loads", "open", or "" when none did), and the
                         \* MODEL payloads stream_data did not load

vars == << training, optimizer, available_memory, forward_batches,
           backward_batches, model, chan, nextId, runPc, tick, call, plan,
           link, file, terminate, codec, hist >>

---------------------------------------------------------------------------
\* Bounds of the model.
MaxId == 2          \* payloads created by peers, proxies and the planner
MaxStages == 3      \* stages of a model handed to the planner

\* Program constants.
MasterPort == 5026                 \* the port whose node never ticks
CandidateMemory == 1400000000      \* candidate_node_memory = 1.4e9
CpuMemory == 1400000000            \* get_gpu_memory() without CUDA

Node == {1, 2}
Peer == Cardinality(Node) + 1
PortOf(n) == 5025 + n

\* Peer lists: inbound holds the connections accepted from peers that
\* connected to us, outbound the connections we opened.
outbound(n) == << n + 1 >>
inbound(n) == IF n > 1 THEN << n - 1 >> ELSE << >>

\* A link as its receiver sees it: <<sender, receiver, list>>, where list is
\* "in" when the receiver holds the connection in its inbound list and "out"
\* when it holds it in its outbound list.  What n sends over a connection of
\* its outbound list arrives on a connection of the peer's inbound list.
InList(p, list) == \E i \in DOMAIN list : list[i] = p
Links == { l \in (Node \cup {Peer}) \X (Node \cup {Peer}) \X {"in", "out"} :
             \/ l[3] = "in" /\ l[1] \in Node /\ InList(l[2], outbound(l[1]))
             \/ l[3] = "out" /\ l[1] \in Node /\ InList(l[2], inbound(l[1]))
             \/ l[3] = "in" /\ l[2] \in Node /\ InList(l[1], inbound(l[2]))
             \/ l[3] = "out" /\ l[2] \in Node /\ InList(l[1], outbound(l[2])) }

\* The receiver-side link on which bytes sent by n over its first outbound
\* (resp. inbound) connection arrive.
ViaOutbound(n) == << n, outbound(n)[1], "in" >>
ViaInbound(n) == << n, inbound(n)[1], "out" >>

---------------------------------------------------------------------------
\* Payloads.  id names the payload a peer, proxy or planner created; a tick
\* derives its output from the item it consumed (same id, gen + 1).
NoItem == [id |-> 0, kind |-> "none", gen |-> 0]
Fresh(kind) == [id |-> nextId, kind |-> kind, gen |-> 0]
Derived(item, kind) == [id |-> item.id, kind |-> kind, gen |-> item.gen + 1]

\* The pickled stage i of the model node n distributes.
ModuleItem(n, i) == [id |-> 10 * n + i, kind |-> "module", gen |-> 0]

NoModel == [kind |-> "none", place |-> << >>, id |-> 0]
NoPlan == [done |-> FALSE, fp |-> << >>, budget |-> 0, peer |-> 0, local |-> 0,
           cand |-> 0, place |-> << >>, sent |-> << >>, error |-> "none"]
NoHist == [enqF |-> << >>, enqB |-> << >>, deqF |-> << >>, deqB |-> << >>,
           outputs |-> {}, preempted |-> FALSE, escaped |-> "",
           refused |-> {}]
NoCall == [pc |-> "idle", sent |-> NoItem, ret |-> NoItem]

\* No bytes: the side file of a link does not exist.
NoMsg == [tag |-> "", item |-> NoItem]

---------------------------------------------------------------------------
\* The wire codec: what the senders write and how stream_data tells the
\* tags apart.  Bytes are sequences of one-character strings.
MaxLen == 3         \* bytes of a payload under test

Byte == {"M", "T", "x"}
Payload == UNION { [1..k -> Byte] : k \in 0..MaxLen }

TagBytes(tag) ==
    CASE tag = "TENSOR" -> << "T", "E", "N", "S", "O", "R" >>
      [] tag = "MODEL" -> << "M", "O", "D", "E", "L" >>
      [] tag = "FORWARD" -> << "F", "O", "R", "W", "A", "R", "D" >>
      [] tag = "DONE STREAM" ->
             << "D", "O", "N", "E", " ", "S", "T", "R", "E", "A", "M" >>

\* b"TAG" + pickle.dumps(x): send_tensor, send_forward and send_module.  The
\* terminator is the bare tag.
WireBytes(tag, payload) == TagBytes(tag) \o payload

\* Python's data[:k] and data[k:].
UpTo(data, k) == SubSeq(data, 1, IF k < Len(data) THEN k ELSE Len(data))
From(data, k) == SubSeq(data, k + 1, Len(data))

\* A dispatch that tests the MODEL tag against six bytes.
Dispatch_six(data) ==
    IF UpTo(data, 6) = TagBytes("TENSOR")
    THEN [branch |-> "TENSOR", payload |-> From(data, 6)]
    ELSE IF UpTo(data, 6) = TagBytes("MODEL")
    THEN [branch |-> "MODEL", payload |-> From(data, 5)]
    ELSE IF data = TagBytes("DONE STREAM")
    THEN [branch |-> "DONE STREAM", payload |-> << >>]
    ELSE IF UpTo(data, 7) = TagBytes("FORWARD")
    THEN [branch |-> "FORWARD", payload |-> From(data, 7)]
    ELSE [branch |-> "NOISE", payload |-> << >>]

\* The tests of stream_data, in the order of its if/elif chain, and the
\* bytes each branch hands to pickle.loads.
Dispatch(data) ==
    IF UpTo(data, 6) = TagBytes("TENSOR")
    THEN [branch |-> "TENSOR", payload |-> From(data, 6)]
    ELSE IF UpTo(data, 5) = TagBytes("MODEL")
    THEN [branch |-> "MODEL", payload |-> From(data, 5)]
    ELSE IF data = TagBytes("DONE STREAM")
    THEN [branch |-> "DONE STREAM", payload |-> << >>]
    ELSE IF UpTo(data, 7) = TagBytes("FORWARD")
    THEN [branch |-> "FORWARD", payload |-> From(data, 7)]
    ELSE [branch |-> "NOISE", payload |-> << >>]

NoCodec == [pc |-> "idle", tag |-> "", payload |-> << >>, data |-> << >>,
            branch |-> "", got |-> << >>]

\* A sender encodes payload under tag.
Encode(tag, payload) ==
    /\ codec.pc = "idle"
    /\ codec' = [NoCodec EXCEPT !.pc = "sent", !.tag = tag, !.payload = payload,
                                !.data = WireBytes(tag, payload)]
    /\ UNCHANGED << training, optimizer, available_memory, forward_batches,
                    backward_batches, model, chan, nextId, runPc, tick, call,
                    plan, link, file, terminate, hist >>

\* The receiver dispatches the bytes.
Decode ==
    /\ codec.pc = "sent"
    /\ codec' = [codec EXCEPT !.pc = "done",
                              !.branch = Dispatch(codec.data).branch,
                              !.got = Dispatch(codec.data).payload]
    /\ UNCHANGED << training, optimizer, available_memory, forward_batches,
                    backward_batches, model, chan, nextId, runPc, tick, call,
                    plan, link, file, terminate, hist >>

---------------------------------------------------------------------------
\* Placement Planner: Worker.distribute_model.

\* "Accommodate on our device if we can"
FitsLocal(module_memory, avail) == module_memory < avail

\* "Distribute otherwise"
FitsCandidate(module_memory, cand) == module_memory < cand

\* One pass over the stages fp[i..], in order.  A stage is "local" when it is
\* accounted to this node, "remote" when it is sent and replaced by a proxy,
\* and "kept" when neither branch of the code is taken: it stays in the
\* model as it is, accounted nowhere.
RECURSIVE Place(_, _, _, _)
Place(fp, i, local, cand) ==
    IF i > Len(fp)
    THEN [local |-> local, cand |-> cand, place |-> << >>, sent |-> << >>]
    ELSE IF FitsLocal(fp[i], local)
    THEN LET r == Place(fp, i + 1, local - fp[i], cand)
         IN  [r EXCEPT !.place = << "local" >> \o @]
    ELSE IF FitsCandidate(fp[i], cand)
    THEN LET r == Place(fp, i + 1, local, cand - fp[i])
         IN  [r EXCEPT !.place = << "remote" >> \o @, !.sent = << i >> \o @]
    ELSE LET r == Place(fp, i + 1, local, cand)
         IN  [r EXCEPT !.place = << "kept" >> \o @]

\* Worker.send_module for each stage of sent, in order, on link l.
RECURSIVE send_modules(_, _, _)
send_modules(queue, sent, n) ==
    IF sent = << >> THEN queue
    ELSE send_modules(
             Append(queue, [tag |-> "MODEL", item |-> ModuleItem(n, Head(sent))]),
             Tail(sent), n)

\* The models handed to the planner: footprints of the stages, in order.
Footprint == {300, 400, 1200, 1400000000}
Models == UNION { [1..k -> Footprint] : k \in 1..MaxStages }

HasProxy(n) == \E i \in DOMAIN model[n].place : model[n].place[i] = "remote"

\* The memory the candidate peer has: its own available_memory (what
\* get_gpu_memory() gave it, or what it was set to).
Advertised(p) == IF p \in Node THEN available_memory[p] ELSE CpuMemory

distribute_model(n, fp) ==
    /\ outbound(n) # << >>                 \* candidate_node = self.outbound[0]
    /\ ~plan[n].done                       \* one placement phase per node
    /\ LET r == Place(fp, 1, available_memory[n], CandidateMemory)
           l == ViaOutbound(n)
       IN  /\ available_memory' = [available_memory EXCEPT ![n] = r.local]
           /\ chan' = [chan EXCEPT ![l] = send_modules(@, r.sent, n)]
           /\ model' = [model EXCEPT ![n] =
                           [kind |-> "plan", place |-> r.place, id |-> 0]]
           /\ plan' = [plan EXCEPT ![n] =
                          [done |-> TRUE, fp |-> fp,
                           budget |-> available_memory[n],
                           peer |-> Advertised(outbound(n)[1]),
                           local |-> r.local, cand |-> r.cand,
                           place |-> r.place, sent |-> r.sent,
                           error |-> "none"]]
    /\ UNCHANGED << link, file, terminate, codec >>
    /\ UNCHANGED << training, optimizer, forward_batches, backward_batches,
                    nextId, runPc, tick, call, hist >>

---------------------------------------------------------------------------
\* Wire messages: send_tensor, send_forward (send_module is above).

\* A send_tensor that tags its bytes as send_forward does.
send_tensor_as_forward(c, l, item) ==
    [c EXCEPT ![l] = Append(@, [tag |-> "FORWARD", item |-> item])]

send_tensor(c, l, item) ==
    [c EXCEPT ![l] = Append(@, [tag |-> "TENSOR", item |-> item])]

send_forward(c, l, item) ==
    [c EXCEPT ![l] = Append(@, [tag |-> "FORWARD", item |-> item])]

\* The tags whose payload stream_data unpickles and acts on.
Tags == {"TENSOR", "MODEL", "FORWARD"}

\* What a peer may write: a tagged payload, the bare stream terminator, or
\* bytes that begin with no tag at all (too short, or an unknown tag).
WireTags == Tags \cup {"DONE STREAM", "NOISE"}

\* What follows the tag: a pickle ("peer"), bytes that pickle.loads rejects
\* ("junk"), or nothing ("none").
PayloadKinds(tag) ==
    IF tag \in Tags THEN {"peer", "junk"}
    ELSE IF tag = "DONE STREAM" THEN {"none"}
    ELSE {"junk"}

\* A peer writes bytes of its own on a link: the transport hands stream_data
\* whatever arrives, whoever wrote it.
PeerSend(l, tag, kind) ==
    /\ l[1] = Peer
    /\ nextId <= MaxId
    /\ chan' = [chan EXCEPT ![l] = Append(@, [tag |-> tag, item |-> Fresh(kind)])]
    /\ nextId' = nextId + 1
    /\ UNCHANGED << link, file, terminate, codec >>
    /\ UNCHANGED << training, optimizer, available_memory, forward_batches,
                    backward_batches, model, runPc, tick, call, plan, hist >>

\* A peer streams a message too large for one send: the transport of the
\* receiver spools the bytes to the side file of the link, and the bare
\* terminator follows on the link.
PeerStream(l, tag, kind) ==
    /\ l[1] = Peer
    /\ nextId <= MaxId
    /\ file[l] = NoMsg
    /\ file' = [file EXCEPT ![l] = [tag |-> tag, item |-> Fresh(kind)]]
    /\ chan' = [chan EXCEPT ![l] =
                   Append(@, [tag |-> "DONE STREAM", item |-> Fresh("none")])]
    /\ nextId' = nextId + 1
    /\ UNCHANGED << link, terminate, codec >>
    /\ UNCHANGED << training, optimizer, available_memory, forward_batches,
                    backward_batches, model, runPc, tick, call, plan, hist >>

\* The queue a TENSOR payload goes to: "Confirm identity/role of node".
TensorQueue(list) == IF list = "in" THEN "forward" ELSE "backward"

\* A MODEL that is loaded whatever the node already holds.
LoadsModel_over(n) == training[n]

\* "if self.training and not self.model": a payload that unpickles to a
\* false value counts as no model, here as in the FORWARD branch.
LoadsModel(n) == training[n] /\ model[n].kind = "none"

\* Tag branches of which TENSOR does not test self.training.
Handle_ungated(n, list, data) ==
    LET loads == \/ data.tag = "TENSOR"
                 \/ data.tag = "MODEL" /\ LoadsModel(n)
                 \/ data.tag = "FORWARD" /\ training[n] /\ model[n].kind # "none"
    IN  IF ~loads THEN "none"
        ELSE IF data.item.kind = "junk" THEN "raise"
        ELSE IF data.tag = "MODEL" THEN "load"
        ELSE IF data.tag = "FORWARD" THEN "forward"
        ELSE TensorQueue(list)

\* What the tag branches of stream_data do with the bytes data: nothing
\* ("none"), put the payload on a queue ("forward", "backward"), store it as
\* the model ("load"), or raise out of pickle.loads ("raise").  The payload
\* is unpickled only when the branch's test of training and model passes.
Handle(n, list, data) ==
    LET loads == \/ data.tag = "TENSOR" /\ training[n]
                 \/ data.tag = "MODEL" /\ LoadsModel(n)
                 \/ data.tag = "FORWARD" /\ training[n] /\ model[n].kind # "none"
    IN  IF ~loads THEN "none"
        ELSE IF data.item.kind = "junk" THEN "raise"
        ELSE IF data.tag = "MODEL" THEN "load"
        ELSE IF data.tag = "FORWARD" THEN "forward"
        ELSE TensorQueue(list)

\* Worker.stream_data(data, node) at n, for the bytes msg that arrived on
\* link l, a connection held in n's inbound ("in") or outbound ("out") list.
\* The bare terminator replays the side file of the link through the same
\* branches and then removes it; open() raises when there is no file.  An
\* exception is printed and raised again, to the thread of the connection,
\* which goes on or ends with it.
stream_data(n, l, msg) ==
    LET replay == msg.tag = "DONE STREAM" /\ msg.item.kind = "none"
        data == IF replay THEN file[l] ELSE msg
        nofile == replay /\ file[l] = NoMsg
        act == IF nofile THEN "raise" ELSE Handle(n, l[3], data)
        h1 == IF act = "forward" THEN [hist[n] EXCEPT !.enqF = Append(@, data.item)]
              ELSE IF act = "backward" THEN [hist[n] EXCEPT !.enqB = Append(@, data.item)]
              ELSE IF act = "raise"
              THEN [hist[n] EXCEPT !.escaped = IF nofile THEN "open" ELSE "loads"]
              ELSE IF act = "none" /\ data.tag = "MODEL"
              THEN [hist[n] EXCEPT !.refused = @ \cup {data.item.id}]
              ELSE hist[n]
    IN  /\ forward_batches' =
               IF act = "forward"
               THEN [forward_batches EXCEPT ![n] = Append(@, data.item)]
               ELSE forward_batches
        /\ backward_batches' =
               IF act = "backward"
               THEN [backward_batches EXCEPT ![n] = Append(@, data.item)]
               ELSE backward_batches
        /\ model' =
               IF act = "load"
               THEN [model EXCEPT ![n] =
                        [kind |-> "stage", place |-> << >>, id |-> data.item.id]]
               ELSE model
        /\ training' = IF act = "load" THEN [training EXCEPT ![n] = TRUE] ELSE training
        /\ file' = IF replay /\ act # "raise" THEN [file EXCEPT ![l] = NoMsg] ELSE file
        /\ hist' = [hist EXCEPT ![n] = h1]
        /\ IF act = "raise"
           THEN \E s \in {"up", "dead"} : link' = [link EXCEPT ![l] = s]
           ELSE UNCHANGED link

\* The receiver thread of link l delivers the next message of the link.
Receive(l) ==
    /\ l[2] \in Node
    /\ link[l] = "up"
    /\ chan[l] # << >>
    /\ chan' = [chan EXCEPT ![l] = Tail(@)]
    /\ stream_data(l[2], l, Head(chan[l]))
    /\ UNCHANGED << optimizer, available_memory, nextId, runPc, tick, call, plan,
                    terminate, codec >>

---------------------------------------------------------------------------
\* Remote Stage Proxy: DistributedModule, called by the user's thread on the
\* node that planned the model.

\* forward, up to the wait: send_forward(worker_node, (args, kwargs)).
ProxyForwardSend(n) ==
    /\ call[n].pc = "idle"
    /\ HasProxy(n)
    /\ nextId <= MaxId
    /\ chan' = send_forward(chan, ViaOutbound(n), Fresh("proxy_fwd"))
    /\ nextId' = nextId + 1
    /\ call' = [call EXCEPT ![n] =
                   [pc |-> "wait", sent |-> Fresh("proxy_fwd"), ret |-> NoItem]]
    /\ UNCHANGED << link, file, terminate, codec >>
    /\ UNCHANGED << training, optimizer, available_memory, forward_batches,
                    backward_batches, model, runPc, tick, plan, hist >>

\* forward, after time.sleep(1): forward_batches.not_empty is a Condition
\* object, always true, so the call goes on to forward_batches.get(), which
\* returns the head of the queue and waits while the queue is empty.
ProxyForwardGet(n) ==
    /\ call[n].pc = "wait"
    /\ forward_batches[n] # << >>
    /\ call' = [call EXCEPT ![n].pc = "idle", ![n].ret = Head(forward_batches[n])]
    /\ forward_batches' = [forward_batches EXCEPT ![n] = Tail(@)]
    /\ UNCHANGED << link, file, terminate, codec >>
    /\ UNCHANGED << training, optimizer, available_memory, backward_batches,
                    model, chan, nextId, runPc, tick, plan, hist >>

\* backward: send_tensor((args, kwargs), worker_node), nothing else.
ProxyBackward(n) ==
    /\ call[n].pc = "idle"
    /\ HasProxy(n)
    /\ nextId <= MaxId
    /\ chan' = send_tensor(chan, ViaOutbound(n), Fresh("proxy_bwd"))
    /\ nextId' = nextId + 1
    /\ UNCHANGED << link, file, terminate, codec >>
    /\ UNCHANGED << training, optimizer, available_memory, forward_batches,
                    backward_batches, model, runPc, tick, call, plan, hist >>

---------------------------------------------------------------------------
\* Pipeline Runtime: Worker.train_loop, called by Worker.run.

\* A tick that tests the forward queue first.
TrainLoopBranch_forward_first(bq, fq) ==
    IF fq # << >> THEN "forward"
    ELSE IF bq # << >> THEN "backward"
    ELSE "idle"

\* The branch a tick takes, from the two emptiness tests.
TrainLoopBranch(bq, fq) ==
    IF bq # << >> THEN "backward"
    ELSE IF fq # << >> THEN "forward"
    ELSE "idle"

\* An iteration of the loop of run starts (the terminate flag is not set)
\* and calls train_loop.
Ticks(n) ==
    /\ runPc[n] = "loop"
    /\ ~terminate[n]
    /\ training[n] /\ PortOf(n) # MasterPort

\* The backward branch, whole: only this thread takes from backward_batches,
\* so the test and the get need no interleaving.  The numeric engine either
\* raises (the exception leaves train_loop and run: the thread ends,
\* "failed") or returns; optimizer.zero_grad() raises when no optimizer was
\* set ("crashed").
TickBackward(n) ==
    /\ Ticks(n)
    /\ TrainLoopBranch(backward_batches[n], forward_batches[n]) = "backward"
    /\ IF outbound(n) = << >>
       THEN \* next_node = self.outbound[0] raises before the get
            /\ runPc' = [runPc EXCEPT ![n] = "crashed"]
            /\ UNCHANGED << backward_batches, chan, hist >>
       ELSE LET item == Head(backward_batches[n])
            IN  /\ backward_batches' = [backward_batches EXCEPT ![n] = Tail(@)]
                /\ hist' = [hist EXCEPT ![n].deqB = Append(@, item),
                                        ![n].preempted =
                                            @ \/ forward_batches[n] # << >>]
                /\ \E ok \in BOOLEAN :
                       IF ok /\ optimizer[n]
                       THEN /\ chan' = send_tensor(chan, ViaOutbound(n),
                                                   Derived(item, "grad"))
                            /\ UNCHANGED runPc
                       ELSE /\ runPc' = [runPc EXCEPT ![n] =
                                            IF ok THEN "crashed" ELSE "failed"]
                            /\ UNCHANGED chan
    /\ UNCHANGED << link, file, terminate, codec >>
    /\ UNCHANGED << training, optimizer, available_memory, forward_batches,
                    model, nextId, tick, call, plan >>

\* The forward branch up to the get: the emptiness test and
\* next_node = self.inbound[0].
TickForwardCheck(n) ==
    /\ Ticks(n)
    /\ TrainLoopBranch(backward_batches[n], forward_batches[n]) = "forward"
    /\ runPc' = [runPc EXCEPT ![n] =
                    IF inbound(n) = << >> THEN "crashed" ELSE "forward"]
    /\ UNCHANGED << link, file, terminate, codec >>
    /\ UNCHANGED << training, optimizer, available_memory, forward_batches,
                    backward_batches, model, chan, nextId, tick, call, plan, hist >>

\* Both queues empty: the tick does nothing.
TickIdle(n) ==
    /\ Ticks(n)
    /\ TrainLoopBranch(backward_batches[n], forward_batches[n]) = "idle"
    /\ UNCHANGED vars

\* The number of proxies the model of n calls in one forward computation.
Proxies(n) == Cardinality({ i \in DOMAIN model[n].place : model[n].place[i] = "remote" })

\* forward_batches.get() and self.model(...).  Without a model the call
\* raises; a model holding a proxy sends its input to the peer and waits for
\* the forward queue (DistributedModule.forward on this thread); a local
\* model computes, or raises ("failed"), and the output goes to inbound[0].
TickForward(n) ==
    /\ runPc[n] = "forward"
    /\ forward_batches[n] # << >>
    /\ LET item == Head(forward_batches[n])
       IN  /\ forward_batches' = [forward_batches EXCEPT ![n] = Tail(@)]
           /\ \E ok \in BOOLEAN :
                 IF model[n].kind = "none" \/ ~ok
                 THEN /\ runPc' = [runPc EXCEPT ![n] =
                                      IF model[n].kind = "none" THEN "crashed"
                                      ELSE "failed"]
                      /\ hist' = [hist EXCEPT ![n].deqF = Append(@, item)]
                      /\ UNCHANGED << chan, tick >>
                 ELSE IF HasProxy(n)
                 THEN /\ runPc' = [runPc EXCEPT ![n] = "proxy"]
                      /\ tick' = [tick EXCEPT ![n] = Proxies(n) - 1]
                      /\ chan' = send_forward(chan, ViaOutbound(n),
                                              Derived(item, "proxy_fwd"))
                      /\ hist' = [hist EXCEPT ![n].deqF = Append(@, item)]
                 ELSE /\ runPc' = [runPc EXCEPT ![n] = "loop"]
                      /\ chan' = send_forward(chan, ViaInbound(n),
                                              Derived(item, "out"))
                      /\ hist' = [hist EXCEPT ![n].deqF = Append(@, item),
                                              ![n].outputs = @ \cup {Derived(item, "out")}]
                      /\ UNCHANGED tick
    /\ UNCHANGED << link, file, terminate, codec >>
    /\ UNCHANGED << training, optimizer, available_memory, backward_batches,
                    model, nextId, call, plan >>

\* The tick's proxy call takes the head of the forward queue as the remote
\* stage's output; then the next proxy is called, or the model's output is
\* sent to inbound[0].
TickProxyGet(n) ==
    /\ runPc[n] = "proxy"
    /\ forward_batches[n] # << >>
    /\ LET item == Head(forward_batches[n])
       IN  /\ forward_batches' = [forward_batches EXCEPT ![n] = Tail(@)]
           /\ IF tick[n] > 0
              THEN /\ tick' = [tick EXCEPT ![n] = @ - 1]
                   /\ chan' = send_forward(chan, ViaOutbound(n),
                                           Derived(item, "proxy_fwd"))
                   /\ hist' = [hist EXCEPT ![n].deqF = Append(@, item)]
                   /\ UNCHANGED runPc
              ELSE /\ runPc' = [runPc EXCEPT ![n] = "loop"]
                   /\ chan' = send_forward(chan, ViaInbound(n),
                                           Derived(item, "out"))
                   /\ hist' = [hist EXCEPT ![n].deqF = Append(@, item),
                                           ![n].outputs = @ \cup {Derived(item, "out")}]
                   /\ UNCHANGED tick
    /\ UNCHANGED << link, file, terminate, codec >>
    /\ UNCHANGED << training, optimizer, available_memory, backward_batches,
                    model, nextId, call, plan >>

---------------------------------------------------------------------------
\* Stopping: the end of Worker.run.

\* The connections of n: self.all_nodes.
AllNodes(n) == { l \in Links : l[2] = n }

\* stop() of the node, called from outside: the terminate flag is set.
Stop(n) ==
    /\ ~terminate[n]
    /\ terminate' = [terminate EXCEPT ![n] = TRUE]
    /\ UNCHANGED << training, optimizer, available_memory, forward_batches,
                    backward_batches, model, chan, nextId, runPc, tick, call,
                    plan, link, file, codec, hist >>

\* "while not self.terminate_flag.is_set()" finds the flag set, and
\* "for node in self.all_nodes: node.stop()": the thread of every connection
\* is told to end.
RunLeave(n) ==
    /\ runPc[n] = "loop"
    /\ terminate[n]
    /\ runPc' = [runPc EXCEPT ![n] = "stopping"]
    /\ link' = [l \in Links |-> IF l \in AllNodes(n) THEN "stopped" ELSE link[l]]
    /\ UNCHANGED << training, optimizer, available_memory, forward_batches,
                    backward_batches, model, chan, nextId, tick, call, plan,
                    file, terminate, codec, hist >>

\* time.sleep(1), then "for node in self.all_nodes: node.join()".
RunJoin(n) ==
    /\ runPc[n] = "stopping"
    /\ runPc' = [runPc EXCEPT ![n] = "joined"]
    /\ link' = [l \in Links |-> IF l \in AllNodes(n) THEN "joined" ELSE link[l]]
    /\ UNCHANGED << training, optimizer, available_memory, forward_batches,
                    backward_batches, model, chan, nextId, tick, call, plan,
                    file, terminate, codec, hist >>

\* self.sock.close(): the node has stopped.
RunClose(n) ==
    /\ runPc[n] = "joined"
    /\ runPc' = [runPc EXCEPT ![n] = "stopped"]
    /\ UNCHANGED << training, optimizer, available_memory, forward_batches,
                    backward_batches, model, chan, nextId, tick, call, plan,
                    link, file, terminate, codec, hist >>

---------------------------------------------------------------------------
\* The running system.  The training flag and the optimizer are set from
\* outside before the node starts; memory is what get_gpu_memory() reports.
RuntimeModels == { << 400 >>, << 1000000000, 1000000000 >> }

Init ==
    /\ training \in [Node -> BOOLEAN]
    /\ optimizer \in { o \in [Node -> BOOLEAN] :
                         \A n \in Node : o[n] => PortOf(n) # MasterPort }
    /\ available_memory = [n \in Node |-> CpuMemory]
    /\ forward_batches = [n \in Node |-> << >>]
    /\ backward_batches = [n \in Node |-> << >>]
    /\ model = [n \in Node |-> NoModel]
    /\ chan = [l \in Links |-> << >>]
    /\ nextId = 1
    /\ runPc = [n \in Node |-> "loop"]
    /\ tick = [n \in Node |-> 0]
    /\ call = [n \in Node |-> NoCall]
    /\ plan = [n \in Node |-> NoPlan]
    /\ link = [l \in Links |-> "up"]
    /\ file = [l \in Links |-> NoMsg]
    /\ terminate = [n \in Node |-> FALSE]
    /\ codec = NoCodec
    /\ hist = [n \in Node |-> NoHist]

Next ==
    \/ \E n \in Node, fp \in RuntimeModels : distribute_model(n, fp)
    \/ \E l \in Links, tag \in Tags : PeerSend(l, tag, "peer")
    \/ \E l \in Links : Receive(l)
    \/ \E n \in Node : ProxyForwardSend(n)
    \/ \E n \in Node : ProxyForwardGet(n)
    \/ \E n \in Node : ProxyBackward(n)
    \/ \E n \in Node : TickBackward(n)
    \/ \E n \in Node : TickForwardCheck(n)
    \/ \E n \in Node : TickIdle(n)
    \/ \E n \in Node : TickForward(n)
    \/ \E n \in Node : TickProxyGet(n)

Spec == Init /\ [][Next]_vars

\* The nodes as the test script starts them: worker1 is the master, worker2
\* is in training mode, and nobody has set an optimizer.
InitTest ==
    /\ Init
    /\ training = [n \in Node |-> PortOf(n) # MasterPort]
    /\ optimizer = [n \in Node |-> FALSE]

\* A model of which two stages go to the peer.
WideModels == { << 1000000000, 500000000, 500000000 >> }

\* The same system with a peer that writes whatever it likes (payloads that
\* do not unpickle, bytes without a tag, terminators and streamed messages)
\* and a planner that is also handed the wide model.
NextWire ==
    \/ Next
    \/ \E n \in Node, fp \in WideModels : distribute_model(n, fp)
    \/ \E l \in Links, tag \in WireTags :
           \E kind \in PayloadKinds(tag) \ {"peer"} : PeerSend(l, tag, kind)
    \/ \E l \in Links, tag \in Tags : PeerStream(l, tag, "peer")

SpecWire == InitTest /\ [][NextWire]_vars

\* The same system with nodes that are stopped.
NextStop ==
    \/ Next
    \/ \E n \in Node : Stop(n)
    \/ \E n \in Node : RunLeave(n)
    \/ \E n \in Node : RunJoin(n)
    \/ \E n \in Node : RunClose(n)

SpecStop == InitTest /\ [][NextStop]_vars

\* Every thread of the program keeps running: the receiver thread of each
\* link, the run loop of each node and a proxy call in progress all take
\* their next step when they can.  Peers and users owe nothing.
Fairness ==
    /\ \A l \in Links : WF_vars(Receive(l))
    /\ \A n \in Node : WF_vars(TickBackward(n))
    /\ \A n \in Node : WF_vars(TickForwardCheck(n))
    /\ \A n \in Node : WF_vars(TickForward(n))
    /\ \A n \in Node : WF_vars(TickProxyGet(n))
    /\ \A n \in Node : WF_vars(ProxyForwardGet(n))

LiveSpec == Spec /\ Fairness

---------------------------------------------------------------------------
\* The planner alone, on every model, with the budgets a node may start with.
InitPlan ==
    /\ training = [n \in Node |-> FALSE]
    /\ optimizer = [n \in Node |-> FALSE]
    /\ available_memory \in [Node -> {1000, 2000, CpuMemory}]
    /\ forward_batches = [n \in Node |-> << >>]
    /\ backward_batches = [n \in Node |-> << >>]
    /\ model = [n \in Node |-> NoModel]
    /\ chan = [l \in Links |-> << >>]
    /\ nextId = 1
    /\ runPc = [n \in Node |-> "loop"]
    /\ tick = [n \in Node |-> 0]
    /\ call = [n \in Node |-> NoCall]
    /\ plan = [n \in Node |-> NoPlan]
    /\ link = [l \in Links |-> "up"]
    /\ file = [l \in Links |-> NoMsg]
    /\ terminate = [n \in Node |-> FALSE]
    /\ codec = NoCodec
    /\ hist = [n \in Node |-> NoHist]

NextPlan == \E n \in Node, fp \in Models : distribute_model(n, fp)

SpecPlan == InitPlan /\ [][NextPlan]_vars

---------------------------------------------------------------------------
\* The codec alone, on every tag and payload.
InitCodec ==
    /\ training = [n \in Node |-> FALSE]
    /\ optimizer = [n \in Node |-> FALSE]
    /\ available_memory = [n \in Node |-> CpuMemory]
    /\ forward_batches = [n \in Node |-> << >>]
    /\ backward_batches = [n \in Node |-> << >>]
    /\ model = [n \in Node |-> NoModel]
    /\ chan = [l \in Links |-> << >>]
    /\ nextId = 1
    /\ runPc = [n \in Node |-> "loop"]
    /\ tick = [n \in Node |-> 0]
    /\ call = [n \in Node |-> NoCall]
    /\ plan = [n \in Node |-> NoPlan]
    /\ link = [l \in Links |-> "up"]
    /\ file = [l \in Links |-> NoMsg]
    /\ terminate = [n \in Node |-> FALSE]
    /\ codec = NoCodec
    /\ hist = [n \in Node |-> NoHist]

NextCodec ==
    \/ \E tag \in Tags, payload \in Payload : Encode(tag, payload)
    \/ Encode("DONE STREAM", << >>)
    \/ Decode

SpecCodec == InitCodec /\ [][NextCodec]_vars

---------------------------------------------------------------------------
\* Properties.

IsPrefix(a, b) == Len(a) <= Len(b) /\ SubSeq(b, 1, Len(a)) = a

\* The run loop of n takes a step of a tick that starts now.
TickStarts(n) ==
    /\ Ticks(n)
    /\ \/ runPc'[n] # runPc[n]
       \/ hist'[n].deqB # hist[n].deqB

\* C1 (priority law): a tick that starts with both the backward and the
\* forward queue non-empty runs the backward branch: it takes the head of
\* the backward queue and nothing else, and never enters the forward branch;
\* the forward queue is as it was.
C1_PriorityLaw ==
    [][\A n \in Node :
          (TickStarts(n) /\ backward_batches[n] # << >> /\ forward_batches[n] # << >>)
          => /\ runPc'[n] # "forward"
             /\ backward_batches'[n] = Tail(backward_batches[n])
             /\ hist'[n].deqB = Append(hist[n].deqB, Head(backward_batches[n]))
             /\ forward_batches'[n] = forward_batches[n]
             /\ hist'[n].deqF = hist[n].deqF]_vars

\* A backward tick has run while an item was waiting on the forward queue.
C1_Witness == \E n \in Node : hist[n].preempted

\* C2 (FIFO law): on each queue, what the run loop has dequeued followed by
\* what is still queued is exactly what stream_data enqueued, in that order:
\* the dequeued items are a prefix of the enqueued ones and none is lost,
\* duplicated or reordered.
C2_Fifo ==
    \A n \in Node :
        /\ IsPrefix(hist[n].deqF, hist[n].enqF)
        /\ IsPrefix(hist[n].deqB, hist[n].enqB)
        /\ hist[n].enqF = hist[n].deqF \o forward_batches[n]
        /\ hist[n].enqB = hist[n].deqB \o backward_batches[n]

\* The stages of a plan that stay on the node fit its budget, one after the
\* other (no sum is formed, so that no footprint overflows).
RECURSIVE LocalFits(_, _, _, _)
LocalFits(fp, place, i, budget) ==
    IF i > Len(fp) THEN TRUE
    ELSE IF place[i] = "remote" THEN LocalFits(fp, place, i + 1, budget)
    ELSE fp[i] <= budget /\ LocalFits(fp, place, i + 1, budget - fp[i])

\* Some stage of the plan fitted neither the local nor the candidate budget.
FitsNowhere(n) == \E i \in DOMAIN plan[n].place : plan[n].place[i] = "kept"

\* C3 (no silent overcommit): after a pass the stages left on the node sum
\* to at most the budget the pass started with, and a stage that did not fit
\* the local budget was placed remotely unless the plan failed.
C3_NoOvercommit ==
    \A n \in Node :
        plan[n].done =>
            /\ LocalFits(plan[n].fp, plan[n].place, 1, plan[n].budget)
            /\ FitsNowhere(n) => plan[n].error # "none"

\* C4 (all-or-nothing failure): when a stage fits neither budget the pass
\* fails with InsufficientCapacity and the budget, the placement and the
\* messages sent are as before the call.
C4_FailsClosed ==
    \A n \in Node :
        (plan[n].done /\ FitsNowhere(n)) =>
            /\ plan[n].error = "InsufficientCapacity"
            /\ available_memory[n] = plan[n].budget
            /\ plan[n].sent = << >>
            /\ chan[ViaOutbound(n)] = << >>
            /\ ~HasProxy(n)

\* The greedy pass as it is specified, against the budget of the node and
\* the budget of the candidate peer: whether place is its placement of fp
\* from stage i on, and what it leaves of the two budgets.
RECURSIVE Greedy(_, _, _, _, _)
Greedy(fp, place, i, local, peer) ==
    IF i > Len(fp) THEN [ok |-> TRUE, local |-> local, peer |-> peer]
    ELSE IF fp[i] < local
    THEN LET r == Greedy(fp, place, i + 1, local - fp[i], peer)
         IN  [r EXCEPT !.ok = @ /\ place[i] = "local"]
    ELSE IF fp[i] < peer
    THEN LET r == Greedy(fp, place, i + 1, local, peer - fp[i])
         IN  [r EXCEPT !.ok = @ /\ place[i] = "remote"]
    ELSE LET r == Greedy(fp, place, i + 1, local, peer)
         IN  [r EXCEPT !.ok = @ /\ place[i] \notin {"local", "remote"}]

\* C5 (greedy pass): the plan is the greedy pass over the node's budget and
\* the candidate peer's budget, the local budget ends decremented by what
\* was placed locally, and one MODEL message is sent per remote stage; for
\* footprints [400, 1200, 300], local budget 1000 and peer budget 2000 that
\* is local, remote, local, 300 left locally, 800 left on the peer, one
\* MODEL message.
C5_GreedyPass ==
    \A n \in Node :
        plan[n].done =>
            LET g == Greedy(plan[n].fp, plan[n].place, 1, plan[n].budget, plan[n].peer)
            IN  /\ g.ok
                /\ available_memory[n] = g.local
                /\ Len(chan[ViaOutbound(n)]) =
                       Cardinality({ i \in DOMAIN plan[n].place : plan[n].place[i] = "remote" })
                /\ (plan[n].fp = << 400, 1200, 300 >> /\ plan[n].budget = 1000
                       /\ plan[n].peer = 2000)
                   => /\ plan[n].place = << "local", "remote", "local" >>
                      /\ available_memory[n] = 300
                      /\ plan[n].cand = 800
                      /\ Len(chan[ViaOutbound(n)]) = 1

\* C6 (bounded wait): a proxy forward call that is waiting returns, reply
\* or no reply.
C6_ForwardReturns ==
    \A n \in Node : (call[n].pc = "wait") ~> (call[n].pc = "idle")

\* C7 (matching reply): what a proxy forward call returns is the output
\* computed from the Forward message that this call sent.
C7_MatchingReply ==
    \A n \in Node :
        call[n].ret # NoItem =>
            /\ call[n].ret.kind = "out"
            /\ call[n].ret.id = call[n].sent.id

\* C8 (backward is send-and-return): a proxy backward call appends exactly
\* one TENSOR message to the link to its peer and to no other link, has
\* returned when the step ends, and leaves both queues and the stored model
\* of every node as they were.
C8_BackwardFrame ==
    [][\A n \in Node :
          ProxyBackward(n) =>
              LET l == ViaOutbound(n)
                  k == Len(chan[l])
              IN  /\ Len(chan'[l]) = k + 1
                  /\ SubSeq(chan'[l], 1, k) = chan[l]
                  /\ chan'[l][k + 1].tag = "TENSOR"
                  /\ \A o \in Links \ {l} : chan'[o] = chan[o]
                  /\ call'[n].pc = "idle"
                  /\ forward_batches' = forward_batches
                  /\ backward_batches' = backward_batches
                  /\ model' = model]_vars

\* A gradient sent by a proxy backward call is in flight or was delivered.
C8_Witness ==
    \/ \E l \in Links : \E i \in DOMAIN chan[l] : chan[l][i].item.kind = "proxy_bwd"
    \/ \E n \in Node : \E i \in DOMAIN hist[n].enqF : hist[n].enqF[i].kind = "proxy_bwd"

\* C9 (gradients reach the backward queue): a gradient sent by a proxy
\* backward call and delivered to a peer that is training and holds a stage
\* is put on the peer's backward queue, never on its forward queue.
C9_GradientToBackward ==
    \A n \in Node :
        (training[n] /\ model[n].kind # "none") =>
            \A i \in DOMAIN hist[n].enqF : hist[n].enqF[i].kind # "proxy_bwd"

\* The forward records a node holds: train_loop sends `out` and keeps no
\* reference to it, and Worker has no field for records.
ForwardRecords(n) == {}

\* C10 (records consumed exactly once): every output a forward tick computed
\* has a record on the node until a backward tick consumes it; what a
\* backward tick consumes is the record of an output of this node; no record
\* is consumed twice.
C10_RecordsOnce ==
    \A n \in Node :
        /\ \A o \in hist[n].outputs :
               \/ o \in ForwardRecords(n)
               \/ \E i \in DOMAIN hist[n].deqB : hist[n].deqB[i] = o
        /\ \A i \in DOMAIN hist[n].deqB : hist[n].deqB[i] \in hist[n].outputs
        /\ \A i, j \in DOMAIN hist[n].deqB :
               hist[n].deqB[i] = hist[n].deqB[j] => i = j

\* C11 (undecodable message): bytes that stream_data cannot decode are
\* dropped: no exception of pickle.loads leaves stream_data towards the
\* connection that delivered the bytes.
C11_UndecodableDropped == \A n \in Node : hist[n].escaped # "loads"

\* C12 (codec round trip): the bytes a sender writes for a tag and a payload
\* are dispatched by stream_data to the branch of that tag, which is handed
\* exactly that payload; the bare terminator reaches the DONE STREAM branch.
C12_RoundTrip ==
    codec.pc = "done" => /\ codec.branch = codec.tag
                         /\ codec.got = codec.payload

\* A MODEL message with the longest payload, one that begins with the first
\* byte of the TENSOR tag, has been encoded and dispatched.
C12_Witness ==
    /\ codec.pc = "done"
    /\ codec.tag = "MODEL"
    /\ Len(codec.payload) = MaxLen
    /\ codec.payload[1] = "T"

\* C13 (fail-soft tick): a failure of the numeric engine in the forward or
\* the backward branch stays inside the tick: the loop of run goes on and no
\* node's run thread ends with the engine's exception.
C13_FailSoft == \A n \in Node : runPc[n] # "failed"

\* C14 (stop order): the loop of run is left only after stop() has set the
\* terminate flag; a connection is joined only when every connection of the
\* node has been told to stop, and the socket is closed only when every
\* connection has been joined.
C14_StopOrder ==
    \A n \in Node :
        /\ runPc[n] \notin {"loop", "forward", "proxy"} => terminate[n]
        /\ (\E l \in AllNodes(n) : link[l] = "joined")
               => \A l \in AllNodes(n) : link[l] \in {"stopped", "joined"}
        /\ runPc[n] = "stopped" => \A l \in AllNodes(n) : link[l] = "joined"

\* C15 (tick iff training): an iteration of the loop of a node that is not
\* stopped calls the tick exactly when the node is in training mode, so a
\* training node at the top of its loop with an item queued takes a tick.
C15_TickIffTraining ==
    \A n \in Node :
        ( /\ runPc[n] = "loop"
          /\ ~terminate[n]
          /\ training[n]
          /\ forward_batches[n] # << >> \/ backward_batches[n] # << >> )
        => Ticks(n)

\* C16 (stage stored before use): every stage the planner has sent to a
\* peer that is in training mode and has planned no model of its own is
\* either still on its way or is the stage that peer has stored, and the
\* forward branch of a tick never reaches self.model(...) on a node that has
\* stored no stage.
C16_StageStored ==
    /\ \A n \in Node : \A i \in DOMAIN plan[n].sent :
           LET p == outbound(n)[1]
               m == ModuleItem(n, plan[n].sent[i])
           IN  (p \in Node /\ training[p] /\ ~plan[p].done)
               => \/ \E k \in DOMAIN chan[ViaOutbound(n)] :
                         chan[ViaOutbound(n)][k].item = m
                  \/ model[p].id = m.id
    /\ \A n \in Node : runPc[n] = "forward" => model[n].kind # "none"

\* C17 (stop unblocks the proxy): once a node has stopped, no forward call
\* of its proxy is still waiting on the empty forward queue.
C17_StopUnblocks ==
    \A n \in Node :
        (runPc[n] = "stopped" /\ forward_batches[n] = << >>)
        => call[n].pc # "wait"

C19_TickNeverBlocks ==
    \A n \in Node : runPc[n] = "forward" => forward_batches[n] # << >>

\* C20 (one item per tick): a backward tick takes exactly one item, from
\* the backward queue, and leaves the forward queue alone; a forward tick
\* that has taken its item takes no further item before it returns to the
\* loop.
C20_OneItemPerTick ==
    [][\A n \in Node :
          /\ hist'[n].deqB # hist[n].deqB
                => /\ backward_batches'[n] = Tail(backward_batches[n])
                   /\ Len(hist'[n].deqB) = Len(hist[n].deqB) + 1
                   /\ forward_batches'[n] = forward_batches[n]
                   /\ hist'[n].deqF = hist[n].deqF
          /\ runPc[n] = "proxy" => hist'[n].deqF = hist[n].deqF]_vars

\* The message a step appends to link l, or NoMsg when the step appends
\* none.
Sent(l) ==
    IF Len(chan'[l]) = Len(chan[l]) + 1 /\ SubSeq(chan'[l], 1, Len(chan[l])) = chan[l]
    THEN chan'[l][Len(chan'[l])]
    ELSE NoMsg

\* C21 (direction of a tick's message): on a node that has a predecessor
\* (inbound[0], whose TENSOR messages are its activations) and a successor
\* (outbound[0], whose TENSOR messages are its gradients), a forward tick
\* that computes an output sends it as one FORWARD message to the successor
\* and nothing to the predecessor, and a backward tick that completes sends
\* one TENSOR message to the predecessor and nothing to the successor.
C21_Direction ==
    [][\A n \in Node :
          (inbound(n) # << >> /\ outbound(n) # << >>)
          => /\ hist'[n].outputs # hist[n].outputs
                   => /\ Sent(ViaOutbound(n)).tag = "FORWARD"
                      /\ Sent(ViaOutbound(n)).item \in hist'[n].outputs
                      /\ chan'[ViaInbound(n)] = chan[ViaInbound(n)]
             /\ (hist'[n].deqB # hist[n].deqB /\ runPc'[n] = "loop")
                   => /\ Sent(ViaInbound(n)).tag = "TENSOR"
                      /\ chan'[ViaOutbound(n)] = chan[ViaOutbound(n)]]_vars

C23_TrainingGates ==
    [][\A n \in Node :
          /\ ~training[n]
                => /\ forward_batches'[n] = forward_batches[n]
                   /\ backward_batches'[n] = backward_batches[n]
                   /\ plan' = plan => model'[n] = model[n]
          /\ (model'[n].kind = "stage" /\ model[n].kind # "stage") => training[n]
          /\ \A l \in AllNodes(n) :
                ( /\ chan[l] # << >>
                  /\ chan'[l] = Tail(chan[l])
                  /\ Head(chan[l]).tag = "FORWARD"
                  /\ hist'[n].enqF # hist[n].enqF )
                => training[n] /\ model[n].kind # "none"]_vars

\* A node that is not in training mode has been handed a MODEL message.
C23_Witness ==
    \E n \in Node :
        /\ ~training[n]
        /\ hist[n].refused # {}

====
